---- MODULE Spec2Model ----
(***************************************************************************)
(* ApplicationServiceStore (synapse/storage/appservice.py): the cache of   *)
(* application services, its one-shot population from the database, and    *)
(* the read / update / unregister operations that wait on cache_defer,     *)
(* and get_app_service_rooms, which reads the room and user tables.        *)
(* Spec is the store with its callers, FairSpec the same with the database *)
(* and the reactor making progress, PopSpec the population over arbitrary  *)
(* rule rows, RoomsSpec get_app_service_rooms over arbitrary tables.       *)
(*                                                                         *)
(* Python values are modelled as follows.  A string column or attribute    *)
(* that is None / SQL NULL is the string NULL; an object-valued None is    *)
(* the record PyNone; an integer that may be None is boxed as [int |-> n]. *)
(* A dict is a record / function on its keys, a list is a sequence.        *)
(***************************************************************************)
EXTENDS Integers, Sequences, FiniteSets, TLC

VARIABLES
    application_services,        \* table: id -> [token, url, hs_token, sender]
    application_services_regex,  \* table: sequence of [as_id, namespace, regex]
    services_cache,              \* self.services_cache
    populate_pc,                 \* position of the _populate_cache generator
    cache_defer,                 \* self.cache_defer: [called, result, callbacks]
    calls,                       \* the in-flight / finished calls of the callers
    rooms,                       \* table: set of [room_id]
    room_aliases,                \* table: set of [room_alias, room_id]
    users,                       \* table: set of [name]
    room_memberships,            \* table: set of [room_id, user_id, membership]
    rooms_call                   \* the call of get_app_service_rooms: [pc, service, result]

roomVars == <<rooms, room_aliases, users, room_memberships, rooms_call>>

vars == <<application_services, application_services_regex, services_cache,
          populate_pc, cache_defer, calls, roomVars>>

-----------------------------------------------------------------------------
(* Bounds *)

\* number of calls the callers make; call c is the c-th call to be made, and
\* any number of them can be in flight at the same time
MaxCalls == 2

\* number of rows of the room_memberships table
MaxMemberships == 2

\* number of rows of application_services_regex when population is examined
\* over arbitrary rule rows
MaxRuleRows == 2

Calls == 1..MaxCalls

-----------------------------------------------------------------------------
(* Python values *)

NULL == "NULL"
PyNone == [none |-> TRUE]
Box(n) == [int |-> n]

\* `not x` for a string-or-None value
NotStr(x) == x = NULL \/ x = ""

\* `not x` for an int-or-None value
NotInt(x) == x = PyNone \/ x = Box(0)

\* a Failure instance carried by a Deferred
Failure == [failure |-> TRUE]

\* StoreError codes raised by update_app_service
ValidationCode == 400
InternalCode == 500

StoreError(code) == [raised |-> "StoreError", code |-> code]

\* the exception a failed runInteraction delivers to its caller
TxnError == [raised |-> "DatabaseError", code |-> 0]

Returned(v) == [returned |-> v]

-----------------------------------------------------------------------------
(* ApplicationService *)

NS_USERS == "users"
NS_ALIASES == "aliases"
NS_ROOMS == "rooms"
NS_LIST == <<NS_USERS, NS_ALIASES, NS_ROOMS>>

ApplicationService(token, url, namespaces, hs_token, sender) ==
    [token |-> token, url |-> url, namespaces |-> namespaces,
     hs_token |-> hs_token, sender |-> sender]

\* list[i] with Python's indexing: negative indices count from the end
PyIndexOk(list, i) == i >= -Len(list) /\ i < Len(list)
PyIndex(list, i) == IF i >= 0 THEN list[i + 1] ELSE list[Len(list) + i + 1]

-----------------------------------------------------------------------------
(* simplejson: a JSON text is a sequence of tokens *)

JSONDecodeError == [raised |-> "JSONDecodeError"]

BoolText(b) == IF b THEN "true" ELSE "false"

\* simplejson.dumps of a rule object {"regex": ..., "exclusive": ...}
dumps(regex_obj) ==
    <<"{", "regex", regex_obj.regex, "exclusive", BoolText(regex_obj.exclusive), "}">>

WellFormed(text) ==
    /\ Len(text) = 6
    /\ text[1] = "{" /\ text[6] = "}"
    /\ text[2] = "regex" /\ text[4] = "exclusive"
    /\ text[5] \in {"true", "false"}

\* simplejson.loads: the decoded object, or JSONDecodeError
loads(text) ==
    IF WellFormed(text)
    THEN [regex |-> text[3], exclusive |-> (text[5] = "true")]
    ELSE JSONDecodeError

-----------------------------------------------------------------------------
(* Fixtures: the rule objects, services and tables the model draws from *)

Rule1 == [regex |-> "@bot_.*", exclusive |-> TRUE]
Rule2 == [regex |-> "!abc:.*", exclusive |-> FALSE]

NoRules == [users |-> <<>>, aliases |-> <<>>, rooms |-> <<>>]

Row(token, url, hs_token, sender) ==
    [token |-> token, url |-> url, hs_token |-> hs_token, sender |-> sender]

RegexRow(as_id, namespace, regex) ==
    [as_id |-> as_id, namespace |-> namespace, regex |-> regex]

\* application_services as the server admin left it: ids are assigned by
\* AUTOINCREMENT, so they are positive; tokens are unique
ServiceTables ==
    { (1 :> Row("t1", "u1", "h1", "@as1")),
      (1 :> Row("t1", "u1", "h1", "@as1")) @@ (2 :> Row("t2", NULL, "h2", "@as2")) }

RegexTables ==
    { <<>>,
      <<RegexRow(1, 0, dumps(Rule1)), RegexRow(1, 2, dumps(Rule2))>> }

\* a payload cut short: not JSON
MalformedText == <<"{", "regex", "@bot_.*">>

\* rule rows as any writer of the table can have left them: a namespace
\* integer in or out of the enumeration, a payload that is JSON or not
RuleRows ==
    [as_id : {1, 2}, namespace : {-4, -1, 0, 2, 3},
     regex : {dumps(Rule1), dumps(Rule2), MalformedText}]

RuleTables == UNION { [1..n -> RuleRows] : n \in 0..MaxRuleRows }

-----------------------------------------------------------------------------
(* The transactions run by runInteraction.  A transaction maps the two     *)
(* tables to [tbl, regex, ret]: the tables it commits and what it returns. *)

\* SELECT id FROM application_services WHERE token=? ; fetchone
_get_as_id_txn(tbl, token) ==
    LET ids == {id \in DOMAIN tbl : tbl[id].token = token}
    IN  IF ids # {}
        THEN Box(CHOOSE id \in ids : \A other \in ids : id <= other)
        ELSE PyNone

\* _unregister_app_service_txn with the DELETE left out
_unregister_app_service_txn_KeepRegex(tbl, regex, token) ==
    LET tbl1 == [id \in DOMAIN tbl |->
                    IF tbl[id].token = token
                    THEN [tbl[id] EXCEPT !.url = NULL]
                    ELSE tbl[id]]
    IN  [tbl |-> tbl1, regex |-> regex,
         ret |-> ~NotInt(_get_as_id_txn(tbl1, token))]

_unregister_app_service_txn(tbl, regex, token) ==
    LET \* UPDATE application_services SET url=NULL WHERE token=?
        tbl1 == [id \in DOMAIN tbl |->
                    IF tbl[id].token = token
                    THEN [tbl[id] EXCEPT !.url = NULL]
                    ELSE tbl[id]]
        as_id == _get_as_id_txn(tbl1, token)
    IN  IF NotInt(as_id)
        THEN [tbl |-> tbl1, regex |-> regex, ret |-> FALSE]
        ELSE [tbl |-> tbl1,
              \* DELETE FROM application_services_regex WHERE as_id=?
              regex |-> SelectSeq(regex, LAMBDA r : r.as_id # as_id.int),
              ret |-> TRUE]

\* the rows INSERTed for one namespace kind, in list order
RegexInserts(as_id, ns_int, regex_objs) ==
    [i \in 1..Len(regex_objs) |-> RegexRow(as_id, ns_int, dumps(regex_objs[i]))]

RECURSIVE InsertNamespaces_OneBased(_, _, _, _)
\* InsertNamespaces with enumerate counting from 1
InsertNamespaces_OneBased(regex, as_id, namespaces, k) ==
    IF k > Len(NS_LIST)
    THEN regex
    ELSE LET ns_str == NS_LIST[k]
             regex1 == IF ns_str \in DOMAIN namespaces
                       THEN regex \o RegexInserts(as_id, k, namespaces[ns_str])
                       ELSE regex
         IN  InsertNamespaces_OneBased(regex1, as_id, namespaces, k + 1)

RECURSIVE InsertNamespaces(_, _, _, _)
\* for (ns_int, ns_str) in enumerate(NS_LIST): if ns_str in service.namespaces
InsertNamespaces(regex, as_id, namespaces, k) ==
    IF k > Len(NS_LIST)
    THEN regex
    ELSE LET ns_int == k - 1
             ns_str == NS_LIST[k]
             regex1 == IF ns_str \in DOMAIN namespaces
                       THEN regex \o RegexInserts(as_id, ns_int, namespaces[ns_str])
                       ELSE regex
         IN  InsertNamespaces(regex1, as_id, namespaces, k + 1)

_update_app_service_txn(tbl, regex, service) ==
    LET as_id == _get_as_id_txn(tbl, service.token)
    IN  IF NotInt(as_id)
        THEN [tbl |-> tbl, regex |-> regex, ret |-> FALSE]
        ELSE [\* UPDATE application_services SET url=?, hs_token=?, sender=? WHERE id=?
              tbl |-> [tbl EXCEPT ![as_id.int] =
                          [@ EXCEPT !.url = service.url,
                                    !.hs_token = service.hs_token,
                                    !.sender = service.sender]],
              regex |-> InsertNamespaces(
                            SelectSeq(regex, LAMBDA r : r.as_id # as_id.int),
                            as_id.int, service.namespaces, 1),
              ret |-> TRUE]

-----------------------------------------------------------------------------
(* _populate_cache *)

JoinRow(row, rr) ==
    [token |-> row.token, url |-> row.url, hs_token |-> row.hs_token,
     sender |-> row.sender, namespace |-> Box(rr.namespace), regex |-> rr.regex]

\* a service without rule rows: the LEFT JOIN fills the regex columns with NULL
NullJoinRow(row) ==
    [token |-> row.token, url |-> row.url, hs_token |-> row.hs_token,
     sender |-> row.sender, namespace |-> PyNone, regex |-> <<>>]

JoinFor(tbl, regex, id) ==
    LET m == SelectSeq(regex, LAMBDA r : r.as_id = id)
    IN  IF m = <<>>
        THEN <<NullJoinRow(tbl[id])>>
        ELSE [i \in 1..Len(m) |-> JoinRow(tbl[id], m[i])]

RECURSIVE LeftJoin(_, _, _)
\* SELECT * FROM application_services LEFT JOIN application_services_regex
LeftJoin(tbl, regex, ids) ==
    IF ids = {}
    THEN <<>>
    ELSE LET id == CHOOSE i \in ids : \A j \in ids : i <= j
         IN  JoinFor(tbl, regex, id) \o LeftJoin(tbl, regex, ids \ {id})

\* the orders in which a sequence can be delivered / a dict can be iterated
Orders(seq) ==
    {[i \in 1..Len(seq) |-> seq[p[i]]] : p \in Permutations(1..Len(seq))}

RECURSIVE SetToSeq(_)
SetToSeq(S) ==
    IF S = {} THEN <<>>
    ELSE LET x == CHOOSE y \in S : TRUE IN <<x>> \o SetToSeq(S \ {x})

\* AddResult that gives up the service on a payload it cannot decode
AddResult_DropService(services, res) ==
    LET as_token == res.token
        s1 == IF as_token \in DOMAIN services
              THEN services
              ELSE services @@ (as_token :>
                       [url |-> res.url, token |-> as_token,
                        hs_token |-> res.hs_token, sender |-> res.sender,
                        namespaces |-> NoRules])
        ns_int == res.namespace
    IN  IF ns_int = PyNone
        THEN s1
        ELSE IF ~PyIndexOk(NS_LIST, ns_int.int)
        THEN s1
        ELSE IF loads(res.regex) = JSONDecodeError
        THEN [t \in DOMAIN s1 \ {as_token} |-> s1[t]]
        ELSE [s1 EXCEPT ![as_token].namespaces[PyIndex(NS_LIST, ns_int.int)] =
                            Append(@, loads(res.regex))]

\* the body of `for res in results`, applied to the dict `services`
AddResult(services, res) ==
    LET as_token == res.token
        s1 == IF as_token \in DOMAIN services
              THEN services
              ELSE services @@ (as_token :>
                       [url |-> res.url, token |-> as_token,
                        hs_token |-> res.hs_token, sender |-> res.sender,
                        namespaces |-> NoRules])
        ns_int == res.namespace
    IN  IF ns_int = PyNone
        THEN s1                                         \* continue
        ELSE IF ~PyIndexOk(NS_LIST, ns_int.int)
        THEN s1                                         \* except IndexError
        ELSE IF loads(res.regex) = JSONDecodeError
        THEN s1                                         \* except JSONDecodeError
        ELSE [s1 EXCEPT ![as_token].namespaces[PyIndex(NS_LIST, ns_int.int)] =
                            Append(@, loads(res.regex))]

RECURSIVE GroupResults(_, _, _)
GroupResults(results, i, services) ==
    IF i > Len(results)
    THEN services
    ELSE GroupResults(results, i + 1, AddResult(services, results[i]))

\* for service in services.values(): self.services_cache.append(...)
AppendServices(cache, values) ==
    cache \o [i \in 1..Len(values) |->
                 ApplicationService(values[i].token, values[i].url,
                                    values[i].namespaces, values[i].hs_token,
                                    values[i].sender)]

\* the caches _populate_cache can build from the tables, starting from
\* `cache`: one for each order of the joined rows and of services.values()
PopulatedCaches(cache, tbl, regex) ==
    UNION { LET services == GroupResults(results, 1, <<>>)
            IN  { AppendServices(cache, values) :
                      values \in Orders(SetToSeq({services[t] : t \in DOMAIN services})) } :
            results \in Orders(LeftJoin(tbl, regex, DOMAIN tbl)) }

-----------------------------------------------------------------------------
(* The cache reads and the cache halves of the mutations *)

get_app_services(cache) == [list |-> cache]

\* index of the first entry a `for ... in self.services_cache` loop finds
\* with the given token / sender
FirstWithToken(cache, token) ==
    CHOOSE i \in 1..Len(cache) :
        cache[i].token = token /\ \A j \in 1..(i - 1) : cache[j].token # token

FirstWithSender(cache, user_id) ==
    CHOOSE i \in 1..Len(cache) :
        cache[i].sender = user_id /\ \A j \in 1..(i - 1) : cache[j].sender # user_id

\* get_app_service_by_user_id passing over soft-unregistered services
get_app_service_by_user_id_SkipUnregistered(cache, user_id) ==
    LET active == SelectSeq(cache, LAMBDA s : s.url # NULL)
    IN  IF \E i \in 1..Len(active) : active[i].sender = user_id
        THEN active[FirstWithSender(active, user_id)]
        ELSE PyNone

\* for service in self.services_cache: if service.sender == user_id: return it
get_app_service_by_user_id(cache, user_id) ==
    IF \E i \in 1..Len(cache) : cache[i].sender = user_id
    THEN cache[FirstWithSender(cache, user_id)]
    ELSE PyNone

\* the from_cache=False implementation is a TODO: the generator falls off its
\* end and the call returns None
get_app_service_by_token(cache, token, from_cache) ==
    IF from_cache
    THEN IF \E i \in 1..Len(cache) : cache[i].token = token
         THEN cache[FirstWithToken(cache, token)]
         ELSE PyNone
    ELSE PyNone

\* UpdateCache with the replacement loop left out: every update appends
UpdateCache_AppendAlways(cache, service) == Append(cache, service)

\* UpdateCache that drops the old entry and appends the new one
UpdateCache_MoveToEnd(cache, service) ==
    Append(SelectSeq(cache, LAMBDA s : s.token # service.token), service)

\* update_app_service, after its transaction: replace the first entry with
\* the token, or append
UpdateCache(cache, service) ==
    IF \E i \in 1..Len(cache) : cache[i].token = service.token
    THEN [cache EXCEPT ![FirstWithToken(cache, service.token)] = service]
    ELSE Append(cache, service)

\* UnregisterCache as a hard delete: the matching entries are dropped
UnregisterCache_Remove(cache, token) ==
    SelectSeq(cache, LAMBDA s : s.token # token)

\* unregister_app_service, after its transaction: null the matching entries
UnregisterCache(cache, token) ==
    IF cache = <<>>
    THEN cache
    ELSE [i \in 1..Len(cache) |->
             IF cache[i].token = token
             THEN [cache[i] EXCEPT !.url = NULL, !.namespaces = PyNone,
                                   !.hs_token = NULL]
             ELSE cache[i]]

-----------------------------------------------------------------------------
(* Calls.  A call is [op, arg, pc, ret, result]:                           *)
(*   pc = "idle"       no call in this slot                                *)
(*        "waiting"    suspended at `yield self.cache_defer`               *)
(*        "txn"        suspended at `yield self.runInteraction(...)`       *)
(*        "committed"  the transaction returned ret; the generator has not *)
(*                     been resumed yet                                    *)
(*        "done"       returned or raised: result                          *)

IdleCall == [op |-> "none", arg |-> PyNone, pc |-> "idle", ret |-> FALSE,
             result |-> PyNone]

Ns1 == [users |-> <<Rule1>>, aliases |-> <<>>, rooms |-> <<Rule2>>]
NsUsersOnly == [users |-> <<Rule2, Rule1>>]

UpdateArgs ==
    { ApplicationService("t1", "u1b", Ns1, "h1b", "@as1b"),
      ApplicationService("t1", "u1c", NsUsersOnly, "h1", "@as1"),
      ApplicationService("t9", "u9", Ns1, "h9", "@as1"),
      ApplicationService(NULL, "u1b", NoRules, "h1b", "@as1"),
      ApplicationService("t1", "", NoRules, "h1b", "@as1"),
      ApplicationService("t1", "u1b", NoRules, NULL, "@as1"),
      ApplicationService("", "u1b", NoRules, NULL, "@as1") }

TokenArgs == {"t1", "t2", "t9"}
UserArgs == {"@as1", "@bot_1:local"}

CallArgs ==
    [op : {"update_app_service"}, arg : UpdateArgs]
    \cup [op : {"unregister_app_service"}, arg : [token : TokenArgs]]
    \cup [op : {"get_app_service_by_token"},
          arg : [token : TokenArgs, from_cache : {TRUE}]
                \cup {[token |-> "t1", from_cache |-> FALSE]}]
    \cup [op : {"get_app_service_by_user_id"}, arg : [user_id : UserArgs]]
    \cup [op : {"get_app_services"}, arg : {PyNone}]

Done(call, result) == [call EXCEPT !.pc = "done", !.result = result]

\* ValidateUpdate without the url test
ValidateUpdate_TokenOnly(call) ==
    IF NotStr(call.arg.token)
    THEN Done(call, StoreError(ValidationCode))
    ELSE IF NotStr(call.arg.hs_token)
    THEN Done(call, StoreError(InternalCode))
    ELSE [call EXCEPT !.pc = "txn"]

\* ValidateUpdate with the two tests in the other order
ValidateUpdate_HsTokenFirst(call) ==
    IF NotStr(call.arg.hs_token)
    THEN Done(call, StoreError(InternalCode))
    ELSE IF NotStr(call.arg.token) \/ NotStr(call.arg.url)
    THEN Done(call, StoreError(ValidationCode))
    ELSE [call EXCEPT !.pc = "txn"]

\* update_app_service between `yield self.cache_defer` and runInteraction
ValidateUpdate(call) ==
    IF NotStr(call.arg.token) \/ NotStr(call.arg.url)
    THEN Done(call, StoreError(ValidationCode))
    ELSE IF NotStr(call.arg.hs_token)
    THEN Done(call, StoreError(InternalCode))
    ELSE [call EXCEPT !.pc = "txn"]

\* the generator of a call from `yield self.cache_defer` to its next
\* suspension or its end, the yield having returned normally
RunToSuspend(call, cache) ==
    CASE call.op = "get_app_services" ->
             Done(call, Returned(get_app_services(cache)))
      [] call.op = "get_app_service_by_user_id" ->
             Done(call, Returned(get_app_service_by_user_id(cache, call.arg.user_id)))
      [] call.op = "get_app_service_by_token" ->
             Done(call, Returned(get_app_service_by_token(
                                    cache, call.arg.token, call.arg.from_cache)))
      [] call.op = "update_app_service" -> ValidateUpdate(call)
      [] call.op = "unregister_app_service" -> [call EXCEPT !.pc = "txn"]

\* inlineCallbacks resumes the generator with the Deferred's current result:
\* a Failure is thrown into it (none of the generators catches it)
Resume(call, r, cache) ==
    IF r = Failure
    THEN Done(call, [raised |-> "Failure", code |-> 0])
    ELSE RunToSuspend(call, cache)

-----------------------------------------------------------------------------
(* cache_defer: [called, result, callbacks].  callbacks holds, in order of  *)
(* registration, the calls suspended on it; the errback log_failure, added  *)
(* in __init__, runs before all of them.                                    *)

\* log_failure logs and returns None
log_failure(failure) == PyNone

\* the errback added in __init__: only a Failure reaches it
InitErrback(r) == IF r = Failure THEN log_failure(r) ELSE r

RECURSIVE RunCallbacks(_, _, _, _, _)
\* each waiting generator is resumed with the current result; its callback
\* (gotResult) returns None, which becomes the result for the next one
RunCallbacks(cbs, i, r, cs, cache) ==
    IF i > Len(cbs)
    THEN [result |-> r, calls |-> cs]
    ELSE RunCallbacks(cbs, i + 1, PyNone,
                      [cs EXCEPT ![cbs[i]] = Resume(cs[cbs[i]], r, cache)], cache)

\* the Deferred fires with r0: the whole callback chain runs
Fire(r0, cache) ==
    RunCallbacks(cache_defer.callbacks, 1, InitErrback(r0), calls, cache)

-----------------------------------------------------------------------------
(* get_app_service_rooms *)

\* re.match(regex, test_string) on the patterns and the strings of the model
RegexMatches ==
    { <<"@bot_.*", "@bot_1:local">>,
      <<"!abc:.*", "!abc:local">>,
      <<"#irc_.*", "#irc_1:local">>,
      <<"#irc_.*", "#irc_2:local">> }

_matches_regex(service, test_string, namespace_key) ==
    \E i \in 1..Len(service.namespaces[namespace_key]) :
        <<service.namespaces[namespace_key][i].regex, test_string>> \in RegexMatches

is_interested_in_user(service, user_id) ==
    _matches_regex(service, user_id, NS_USERS) \/ user_id = service.sender

is_interested_in_alias(service, alias) == _matches_regex(service, alias, NS_ALIASES)

is_interested_in_room(service, room_id) == _matches_regex(service, room_id, NS_ROOMS)

RoomsForUser(room_id, sender, membership) ==
    [room_id |-> room_id, sender |-> sender, membership |-> membership]

\* the rooms of user_id whose membership is in membership_list
_get_rooms_for_user_where_membership_is_txn(memberships, user_id, membership_list) ==
    { RoomsForUser(m.room_id, m.user_id, m.membership) :
          m \in { m \in memberships : /\ m.user_id = user_id
                                      /\ m.membership \in membership_list } }

\* _get_app_service_rooms_txn adding a record of the sender for every
\* matching room, known or not
_get_app_service_rooms_txn_NoKnownRooms(room_entries, room_alias_mappings, user_rows, memberships, service) ==
    LET matching_room_list ==
            { r.room_id : r \in { r \in room_entries :
                                      is_interested_in_room(service, r.room_id) } }
            \cup { r.room_id : r \in { r \in room_alias_mappings :
                                          is_interested_in_alias(service, r.room_alias) } }
        user_list == { u.name : u \in { u \in user_rows :
                                            is_interested_in_user(service, u.name) } }
        rooms_for_user_matching_user_id ==
            UNION { _get_rooms_for_user_where_membership_is_txn(memberships, user_id, {"join"}) :
                        user_id \in user_list }
    IN  rooms_for_user_matching_user_id
            \cup { RoomsForUser(r, service.sender, "join") : r \in matching_room_list }

_get_app_service_rooms_txn(room_entries, room_alias_mappings, user_rows, memberships, service) ==
    LET matching_room_list ==
            { r.room_id : r \in { r \in room_entries :
                                      is_interested_in_room(service, r.room_id) } }
            \cup { r.room_id : r \in { r \in room_alias_mappings :
                                          is_interested_in_alias(service, r.room_alias) } }
        user_list == { u.name : u \in { u \in user_rows :
                                            is_interested_in_user(service, u.name) } }
        rooms_for_user_matching_user_id ==
            UNION { _get_rooms_for_user_where_membership_is_txn(memberships, user_id, {"join"}) :
                        user_id \in user_list }
        known_room_ids == { r.room_id : r \in rooms_for_user_matching_user_id }
        missing_rooms_for_user ==
            { RoomsForUser(r, service.sender, "join") :
                  r \in { r \in matching_room_list : r \notin known_room_ids } }
    IN  rooms_for_user_matching_user_id \cup missing_rooms_for_user

\* the contents of the four tables the resolver reads
Rule3 == [regex |-> "#irc_.*", exclusive |-> TRUE]
RoomIds == {"!abc:local", "!xyz:local"}
RoomRows == [room_id : RoomIds]
AliasRows ==
    { [room_alias |-> "#irc_1:local", room_id |-> "!abc:local"],
      [room_alias |-> "#irc_2:local", room_id |-> "!xyz:local"] }
UserRows == [name : {"@as1", "@bot_1:local", "@carol:local"}]
MembershipRows ==
    [room_id : RoomIds, user_id : {u.name : u \in UserRows}, membership : {"join", "leave"}]

\* the services get_app_service_rooms is called with
RoomsServiceArgs ==
    { ApplicationService("t1", "u1", Ns1, "h1", "@as1"),
      ApplicationService("t1", "u1",
                         [users |-> <<Rule1>>, aliases |-> <<Rule3>>, rooms |-> <<Rule2>>],
                         "h1", "@as1"),
      ApplicationService("t2", NULL, NoRules, "h2", "@as2") }

IdleRoomsCall == [pc |-> "idle", service |-> PyNone, result |-> {}]

-----------------------------------------------------------------------------
(* Init: __init__ has run; _populate_cache is suspended on its query *)

\* __init__ has returned and no call has been made
Constructed ==
    /\ services_cache = <<>>
    /\ populate_pc = "query"
    /\ cache_defer = [called |-> FALSE, result |-> PyNone, callbacks |-> <<>>]
    /\ calls = [c \in Calls |-> IdleCall]

StoreInit ==
    /\ application_services \in ServiceTables
    /\ application_services_regex \in RegexTables
    /\ Constructed

\* the store over a homeserver that has no room and no user yet
Init ==
    /\ StoreInit
    /\ rooms = {}
    /\ room_aliases = {}
    /\ users = {}
    /\ room_memberships = {}
    /\ rooms_call = IdleRoomsCall

-----------------------------------------------------------------------------
(* Actions *)

\* get_app_service_rooms(service): runInteraction runs the transaction and
\* the caller gets the set it returns
get_app_service_rooms(service) ==
    /\ rooms_call.pc = "idle"
    /\ rooms_call' =
           [pc |-> "done", service |-> service,
            result |-> _get_app_service_rooms_txn(rooms, room_aliases, users,
                                                  room_memberships, service)]
    /\ UNCHANGED <<application_services, application_services_regex, services_cache,
                   populate_pc, cache_defer, calls,
                   rooms, room_aliases, users, room_memberships>>

\* _execute_and_decode returns `results`; the rest of _populate_cache runs
\* and cache_defer fires with the generator's return value, None
PopulateDone ==
    /\ populate_pc = "query"
    /\ \E cache \in PopulatedCaches(services_cache, application_services,
                                      application_services_regex) :
         LET fired == Fire(PyNone, cache)
         IN  /\ services_cache' = cache
             /\ calls' = fired.calls
             /\ cache_defer' = [called |-> TRUE, result |-> fired.result,
                                callbacks |-> <<>>]
    /\ populate_pc' = "done"
    /\ UNCHANGED <<application_services, application_services_regex, roomVars>>

\* PopulateFail with the failure lost: cache_defer never fires
PopulateFail_NeverFires ==
    /\ populate_pc = "query"
    /\ populate_pc' = "raised"
    /\ UNCHANGED <<application_services, application_services_regex,
                   services_cache, cache_defer, calls, roomVars>>

\* _execute_and_decode raises (store unreachable): the generator raises at
\* its first yield and cache_defer fires with the Failure
PopulateFail ==
    /\ populate_pc = "query"
    /\ LET fired == Fire(Failure, services_cache)
       IN  /\ calls' = fired.calls
           /\ cache_defer' = [called |-> TRUE, result |-> fired.result,
                              callbacks |-> <<>>]
    /\ populate_pc' = "raised"
    /\ UNCHANGED <<application_services, application_services_regex, services_cache, roomVars>>

\* Call without `yield self.cache_defer`: the generator runs on at once
Call_NoWait(c, op, arg) ==
    /\ calls[c].pc = "idle"
    /\ \A b \in Calls : b < c => calls[b].pc # "idle"
    /\ calls' = [calls EXCEPT
                    ![c] = RunToSuspend([IdleCall EXCEPT !.op = op, !.arg = arg],
                                        services_cache)]
    /\ UNCHANGED <<application_services, application_services_regex,
                   services_cache, populate_pc, cache_defer, roomVars>>

\* a caller makes call c, one of the five operations; the generator runs to
\* `yield self.cache_defer` and, if the Deferred has fired, beyond it
Call(c, op, arg) ==
    /\ calls[c].pc = "idle"
    /\ \A b \in Calls : b < c => calls[b].pc # "idle"
    /\ LET call == [IdleCall EXCEPT !.op = op, !.arg = arg]
       IN  IF cache_defer.called
           THEN /\ calls' = [calls EXCEPT
                                ![c] = Resume(call, cache_defer.result, services_cache)]
                /\ cache_defer' = [cache_defer EXCEPT !.result = PyNone]
           ELSE /\ calls' = [calls EXCEPT ![c] = [call EXCEPT !.pc = "waiting"]]
                /\ cache_defer' = [cache_defer EXCEPT
                                      !.callbacks = Append(@, c)]
    /\ UNCHANGED <<application_services, application_services_regex,
                   services_cache, populate_pc, roomVars>>

\* what the transaction of a call does to the tables
TxnOf(call) ==
    IF call.op = "update_app_service"
    THEN _update_app_service_txn(application_services,
                                 application_services_regex, call.arg)
    ELSE _unregister_app_service_txn(application_services,
                                     application_services_regex, call.arg.token)

\* runInteraction runs the transaction function and commits
TxnCommit(c) ==
    /\ calls[c].pc = "txn"
    /\ LET txn == TxnOf(calls[c])
       IN  /\ application_services' = txn.tbl
           /\ application_services_regex' = txn.regex
           /\ calls' = [calls EXCEPT ![c].pc = "committed", ![c].ret = txn.ret]
    /\ UNCHANGED <<services_cache, populate_pc, cache_defer, roomVars>>

\* TxnFail with the cache half run all the same
TxnFail_CacheAnyway(c) ==
    /\ calls[c].pc = "txn"
    /\ calls' = [calls EXCEPT ![c] = Done(@, TxnError)]
    /\ services_cache' =
           IF calls[c].op = "update_app_service"
           THEN UpdateCache(services_cache, calls[c].arg)
           ELSE UnregisterCache(services_cache, calls[c].arg.token)
    /\ UNCHANGED <<application_services, application_services_regex,
                   populate_pc, cache_defer, roomVars>>

\* runInteraction fails: the transaction is rolled back and the exception
\* is thrown into the generator, which does not catch it
TxnFail(c) ==
    /\ calls[c].pc = "txn"
    /\ calls' = [calls EXCEPT ![c] = Done(@, TxnError)]
    /\ UNCHANGED <<application_services, application_services_regex,
                   services_cache, populate_pc, cache_defer, roomVars>>

\* update_app_service resumes after its transaction
UpdateCacheStep(c) ==
    /\ calls[c].pc = "committed"
    /\ calls[c].op = "update_app_service"
    /\ services_cache' = UpdateCache(services_cache, calls[c].arg)
    /\ calls' = [calls EXCEPT ![c] = Done(@, Returned(PyNone))]
    /\ UNCHANGED <<application_services, application_services_regex,
                   populate_pc, cache_defer, roomVars>>

\* unregister_app_service resumes after its transaction
UnregisterCacheStep(c) ==
    /\ calls[c].pc = "committed"
    /\ calls[c].op = "unregister_app_service"
    /\ services_cache' = UnregisterCache(services_cache, calls[c].arg.token)
    /\ calls' = [calls EXCEPT ![c] = Done(@, Returned(PyNone))]
    /\ UNCHANGED <<application_services, application_services_regex,
                   populate_pc, cache_defer, roomVars>>

Next ==
    \/ PopulateDone
    \/ PopulateFail
    \/ \E c \in Calls : \E a \in CallArgs : Call(c, a.op, a.arg)
    \/ \E c \in Calls : TxnCommit(c)
    \/ \E c \in Calls : TxnFail(c)
    \/ \E c \in Calls : UpdateCacheStep(c)
    \/ \E c \in Calls : UnregisterCacheStep(c)

Spec == Init /\ [][Next]_vars

\* The specification for liveness: the same actions, with one table
\* fixture and one argument for each path through the operations
LiveCallArgs ==
    { a \in CallArgs :
        \/ a.op = "update_app_service" /\ a.arg.url \in {"u1b", "u9"}
                                          /\ a.arg.namespaces = Ns1
        \/ a.op = "update_app_service" /\ a.arg.url = ""
        \/ a.op = "unregister_app_service" /\ a.arg.token = "t1"
        \/ a.op = "get_app_service_by_token" /\ a.arg.token = "t1"
        \/ a.op = "get_app_service_by_user_id" /\ a.arg.user_id = "@as1"
        \/ a.op = "get_app_services" }

LiveInit ==
    /\ Init
    /\ DOMAIN application_services = {1, 2}
    /\ application_services_regex # <<>>

LiveNext ==
    \/ PopulateDone
    \/ PopulateFail
    \/ \E c \in Calls : \E a \in LiveCallArgs : Call(c, a.op, a.arg)
    \/ \E c \in Calls : TxnCommit(c)
    \/ \E c \in Calls : TxnFail(c)
    \/ \E c \in Calls : UpdateCacheStep(c)
    \/ \E c \in Calls : UnregisterCacheStep(c)

\* the store eventually answers each request, and the reactor eventually
\* resumes a generator whose Deferred has fired
Fairness ==
    /\ WF_vars(PopulateFail \/ PopulateDone)
    /\ \A c \in Calls : WF_vars(TxnCommit(c) \/ TxnFail(c))
    /\ \A c \in Calls : WF_vars(UpdateCacheStep(c) \/ UnregisterCacheStep(c))

FairSpec == LiveInit /\ [][LiveNext]_vars /\ Fairness

\* _populate_cache over every table of up to MaxRuleRows rule rows
PopInit ==
    /\ application_services \in ServiceTables
    /\ application_services_regex \in RuleTables
    /\ Constructed
    /\ rooms = {}
    /\ room_aliases = {}
    /\ users = {}
    /\ room_memberships = {}
    /\ rooms_call = IdleRoomsCall

PopNext == PopulateDone \/ PopulateFail

PopSpec == PopInit /\ [][PopNext]_vars

\* get_app_service_rooms over every content of its tables of up to
\* MaxMemberships membership rows
RoomsInit ==
    /\ StoreInit
    /\ DOMAIN application_services = {1}
    /\ application_services_regex = <<>>
    /\ rooms \in SUBSET RoomRows
    /\ room_aliases \in SUBSET AliasRows
    /\ users \in SUBSET UserRows
    /\ room_memberships \in { m \in SUBSET MembershipRows : Cardinality(m) <= MaxMemberships }
    /\ rooms_call = IdleRoomsCall

RoomsNext == \E service \in RoomsServiceArgs : get_app_service_rooms(service)

RoomsSpec == RoomsInit /\ [][RoomsNext]_vars

-----------------------------------------------------------------------------
(* Properties *)

IsUpdate(call) == call.op = "update_app_service"
IsUnregister(call) == call.op = "unregister_app_service"
Raised(call) == call.pc = "done" /\ "raised" \in DOMAIN call.result
ReturnedNormally(call) == call.pc = "done" /\ "returned" \in DOMAIN call.result

\* call c takes the step from pc = from to pc = to
Moves(c, from, to) == calls[c].pc = from /\ calls'[c].pc = to

\* C1: once population has failed, every call that finishes has raised; none
\* returns a result computed from the cache.
C1_FailFastAfterFailedPopulation ==
    populate_pc = "raised" =>
        \A c \in Calls : calls[c].pc = "done" => Raised(calls[c])

\* C2: while population is in flight no call has gone past its wait on
\* cache_defer (no cache read, no cache write, no transaction started), and
\* the cache is as __init__ left it.
C2_ReadinessGating ==
    populate_pc = "query" =>
        /\ ~cache_defer.called
        /\ services_cache = <<>>
        /\ \A c \in Calls : calls[c].pc \in {"idle", "waiting"}

\* two calls, a mutation among them, suspended while population is in flight
C2_Witness ==
    /\ populate_pc = "query"
    /\ calls[1].pc = "waiting" /\ IsUpdate(calls[1])
    /\ calls[2].pc = "waiting" /\ calls[2].op = "get_app_services"

\* C3: cache_defer eventually fires, whether population succeeds or fails,
\* and every call that was made eventually returns or raises.  A call is made
\* once and its pc never leaves "done", so "each call made is eventually
\* done" is: from some point on every call is either never made or done.
C3_NoHang ==
    <>[](/\ cache_defer.called
         /\ \A c \in Calls : calls[c].pc \in {"idle", "done"})

\* population failed with two calls suspended on cache_defer; both finished
C3_Witness ==
    /\ populate_pc = "raised"
    /\ cache_defer.called
    /\ \A c \in Calls : calls[c].pc = "done"
    /\ IsUnregister(calls[1])
    /\ calls[2].op = "get_app_service_by_token"

ValidService(service) ==
    ~NotStr(service.token) /\ ~NotStr(service.url) /\ ~NotStr(service.hs_token)

\* the token a mutation is about
TokenOf(call) == call.arg.token

\* this step is the cache half of a mutation of token t
CacheStepOn(t) ==
    \E c \in Calls : Moves(c, "committed", "done") /\ TokenOf(calls[c]) = t

Tokens == TokenArgs \cup {s.token : s \in UpdateArgs}

\* C4: when update_app_service(service) completes, get_app_service_by_token
\* of its token is service, field for field, whether or not the token was
\* cached before; and the answer for a token stays what it is until the cache
\* half of another mutation of that token runs.
C4_UpdateThenGetByToken ==
    [][/\ \A c \in Calls :
            (IsUpdate(calls[c]) /\ Moves(c, "committed", "done")) =>
                /\ ValidService(calls[c].arg)
                /\ get_app_service_by_token(services_cache', calls[c].arg.token, TRUE)
                       = calls[c].arg
       /\ \A t \in Tokens :
            (cache_defer.called /\ ~CacheStepOn(t)) =>
                get_app_service_by_token(services_cache', t, TRUE)
                    = get_app_service_by_token(services_cache, t, TRUE)
      ]_vars

\* an update has completed and a later get_app_service_by_token of its token
\* has returned the service that was passed to it
C4_Witness ==
    /\ IsUpdate(calls[1]) /\ ReturnedNormally(calls[1])
    /\ calls[2].op = "get_app_service_by_token"
    /\ calls[2].pc = "done"
    /\ calls[2].arg.token = calls[1].arg.token
    /\ calls[2].result = Returned(calls[1].arg)
    /\ calls[1].arg.namespaces = Ns1

MissingTokenOrUrl(service) == NotStr(service.token) \/ NotStr(service.url)

\* the step in which call c finishes leaves the tables alone, and the cache
\* too unless it is the step in which population fills it
FinishesWithoutEffect(c) ==
    (calls[c].pc # "done" /\ calls'[c].pc = "done") =>
        /\ application_services' = application_services
        /\ application_services_regex' = application_services_regex
        /\ populate_pc' = populate_pc => services_cache' = services_cache

\* C5: update_app_service with an empty or missing token or url raises
\* StoreError 400, never starts its transaction, and changes neither the
\* cache nor the tables.
C5_MissingTokenOrUrl ==
    [][\A c \in Calls :
           (IsUpdate(calls'[c]) /\ MissingTokenOrUrl(calls'[c].arg)) =>
               /\ calls'[c].pc \in {"waiting", "done"}
               /\ calls'[c].pc = "done" =>
                      calls'[c].result = StoreError(ValidationCode)
               /\ FinishesWithoutEffect(c)
      ]_vars

\* an update with an empty url has raised StoreError 400 against the
\* populated cache
C5_Witness ==
    /\ IsUpdate(calls[1])
    /\ calls[1].arg.url = ""
    /\ calls[1].pc = "done"
    /\ calls[1].result = StoreError(ValidationCode)
    /\ populate_pc = "done"
    /\ calls[2].pc = "idle"

\* C6: update_app_service without an hs_token raises StoreError 500 when
\* token and url are there, and StoreError 400 when one of them is missing
\* too; either way no transaction starts and neither the cache nor the
\* tables change.
C6_MissingHsToken ==
    [][\A c \in Calls :
           (IsUpdate(calls'[c]) /\ NotStr(calls'[c].arg.hs_token)) =>
               /\ calls'[c].pc \in {"waiting", "done"}
               /\ calls'[c].pc = "done" =>
                      calls'[c].result =
                          IF MissingTokenOrUrl(calls'[c].arg)
                          THEN StoreError(ValidationCode)
                          ELSE StoreError(InternalCode)
               /\ FinishesWithoutEffect(c)
      ]_vars

\* one update without hs_token has raised 500, another without token and
\* hs_token has raised 400
C6_Witness ==
    /\ IsUpdate(calls[1]) /\ IsUpdate(calls[2])
    /\ calls[1].arg.hs_token = NULL /\ ~MissingTokenOrUrl(calls[1].arg)
    /\ calls[1].result = StoreError(InternalCode)
    /\ calls[2].arg.hs_token = NULL /\ MissingTokenOrUrl(calls[2].arg)
    /\ calls[2].result = StoreError(ValidationCode)

IsCached(cache, token) == \E i \in 1..Len(cache) : cache[i].token = token

\* a namespaces value that holds no rule: None, or a dict of empty lists
HoldsNoRule(namespaces) ==
    IF namespaces = PyNone
    THEN TRUE
    ELSE \A k \in DOMAIN namespaces : namespaces[k] = <<>>

\* C7: when unregister_app_service(token) completes for a cached token,
\* get_app_service_by_token(token) still returns a service: the entry in the
\* same cache slot, with its token, a null url and no namespace rule (the
\* code sets namespaces to None).
C7_UnregisterThenGetByToken ==
    [][\A c \in Calls :
           (/\ IsUnregister(calls[c])
            /\ Moves(c, "committed", "done")
            /\ IsCached(services_cache, calls[c].arg.token)) =>
               LET token == calls[c].arg.token
                   i == FirstWithToken(services_cache, token)
                   got == get_app_service_by_token(services_cache', token, TRUE)
               IN  /\ Len(services_cache') = Len(services_cache)
                   /\ got = services_cache'[i]
                   /\ got # PyNone
                   /\ got.token = token
                   /\ got.url = NULL
                   /\ HoldsNoRule(got.namespaces)
      ]_vars

\* an unregister of a token that population cached with rules has completed
\* and a later get_app_service_by_token has returned the nulled entry
C7_Witness ==
    /\ IsUnregister(calls[1]) /\ ReturnedNormally(calls[1])
    /\ calls[1].arg.token = "t1"
    /\ application_services_regex = <<>>
    /\ calls[2].op = "get_app_service_by_token"
    /\ calls[2].arg = [token |-> "t1", from_cache |-> TRUE]
    /\ calls[2].pc = "done"
    /\ calls[2].result =
           Returned(ApplicationService("t1", NULL, PyNone, NULL, "@as1"))

HasRow(tbl, token) == \E id \in DOMAIN tbl : tbl[id].token = token

C9_UnregisterUnknownTokenIsNoOp ==
    [][\A c \in Calls :
           (/\ IsUnregister(calls[c])
            /\ ~HasRow(application_services, calls[c].arg.token)) =>
               /\ Moves(c, "txn", "committed") =>
                      /\ application_services' = application_services
                      /\ application_services_regex' = application_services_regex
               /\ Moves(c, "committed", "done") =>
                      /\ services_cache' = services_cache
                      /\ calls'[c].result = Returned(PyNone)
      ]_vars

CacheTokens == {services_cache[i].token : i \in 1..Len(services_cache)}
StoreTokens == {application_services[id].token : id \in DOMAIN application_services}

MutationInFlight ==
    \E c \in Calls :
        /\ IsUpdate(calls[c]) \/ IsUnregister(calls[c])
        /\ calls[c].pc \in {"waiting", "txn", "committed"}

\* C10: after a successful population, whenever no mutation is in flight,
\* the tokens in the cache are the tokens in the service table.
C10_CacheMirrorsStore ==
    (populate_pc = "done" /\ ~MutationInFlight) => CacheTokens = StoreTokens

IsMutation(call) == IsUpdate(call) \/ IsUnregister(call)

\* C11: no two entries of services_cache have the same token.
C11_TokensUnique ==
    \A i, j \in 1..Len(services_cache) :
        services_cache[i].token = services_cache[j].token => i = j

\* two updates of a token that population did not cache have both completed,
\* and the cache holds that token once
C11_Witness ==
    /\ populate_pc = "done"
    /\ \A c \in Calls : IsUpdate(calls[c]) /\ ReturnedNormally(calls[c])
                         /\ calls[c].arg.token = "t9"
    /\ Cardinality({i \in 1..Len(services_cache) : services_cache[i].token = "t9"}) = 1

\* C12: once population is over, the cache changes only in the step that
\* resumes a mutation whose own transaction has returned; that position is
\* reached only from the transaction; and a call whose transaction fails
\* raises, with the cache and the tables as they were.
C12_CommitBeforeCache ==
    [][/\ (cache_defer.called /\ services_cache' # services_cache) =>
              \E c \in Calls : IsMutation(calls[c]) /\ Moves(c, "committed", "done")
       /\ \A c \in Calls :
              /\ (calls'[c].pc = "committed" /\ calls[c].pc # "committed") =>
                     /\ calls[c].pc = "txn"
                     /\ services_cache' = services_cache
              /\ Moves(c, "txn", "done") =>
                     /\ Raised(calls'[c])
                     /\ services_cache' = services_cache
                     /\ application_services' = application_services
                     /\ application_services_regex' = application_services_regex
      ]_vars

\* the transaction of an update of t1 has failed: the call has raised and the
\* cache still holds what population put there, while an unregister of t9
\* has gone through
C12_Witness ==
    /\ populate_pc = "done"
    /\ IsUpdate(calls[1]) /\ calls[1].arg.token = "t1"
    /\ calls[1].pc = "done" /\ calls[1].result = TxnError
    /\ get_app_service_by_token(services_cache, "t1", TRUE).url = "u1"
    /\ IsUnregister(calls[2]) /\ ReturnedNormally(calls[2])

\* C13: the set get_app_service_rooms returns holds at most one record per
\* room_id.
C13_OneRecordPerRoom ==
    rooms_call.pc = "done" =>
        \A r1, r2 \in rooms_call.result : r1.room_id = r2.room_id => r1 = r2

\* P: the rooms the service matches by id or by an alias that points to them
MatchingRooms(service) ==
    {r.room_id : r \in {r \in rooms : is_interested_in_room(service, r.room_id)}}
    \cup {a.room_id : a \in {a \in room_aliases :
                                 is_interested_in_alias(service, a.room_alias)}}

\* M: the joined-membership records of the users the service is interested in
JoinedRecords(service) ==
    { RoomsForUser(m.room_id, m.user_id, "join") :
          m \in { m \in room_memberships :
                      /\ m.membership = "join"
                      /\ [name |-> m.user_id] \in users
                      /\ is_interested_in_user(service, m.user_id) } }

RoomsOf(records) == {r.room_id : r \in records}

\* C14: get_app_service_rooms(service) returns M and, for every room of P
\* that no record of M is about, one record (room, service.sender, "join");
\* the rooms covered are those of P and M and no synthetic record is about
\* a room of M.
C14_ResolverResult ==
    rooms_call.pc = "done" =>
        LET service == rooms_call.service
            M == JoinedRecords(service)
            P == MatchingRooms(service)
        IN  /\ rooms_call.result =
                   M \cup { RoomsForUser(r, service.sender, "join") :
                                r \in P \ RoomsOf(M) }
            /\ RoomsOf(rooms_call.result) = P \cup RoomsOf(M)
            /\ \A r \in rooms_call.result \ M : r.room_id \notin RoomsOf(M)

\* the service matches !abc:local by id, where nobody is joined, and
\* @bot_1:local, who is joined to !xyz:local, as is @carol:local
C14_Witness ==
    /\ rooms_call.pc = "done"
    /\ rooms_call.service.namespaces = Ns1
    /\ rooms = RoomRows
    /\ users = {[name |-> "@bot_1:local"], [name |-> "@carol:local"]}
    /\ room_memberships =
           { [room_id |-> "!xyz:local", user_id |-> "@bot_1:local", membership |-> "join"],
             [room_id |-> "!xyz:local", user_id |-> "@carol:local", membership |-> "join"] }
    /\ rooms_call.result =
           { RoomsForUser("!abc:local", "@as1", "join"),
             RoomsForUser("!xyz:local", "@bot_1:local", "join") }

IsByUserId(call) == call.op = "get_app_service_by_user_id"

Finishes(c) == calls[c].pc # "done" /\ calls'[c].pc = "done"

\* the positions of the cache whose sender is user_id
SenderHits(cache, user_id) == {i \in 1..Len(cache) : cache[i].sender = user_id}

\* C15: get_app_service_by_user_id(user_id) returns the entry at the lowest
\* cache position whose sender equals user_id, whatever its url and its
\* rules, and None when no entry has that sender.
C15_GetByUserId ==
    [][\A c \in Calls :
          (Finishes(c) /\ IsByUserId(calls'[c]) /\ ReturnedNormally(calls'[c])) =>
              LET hits == SenderHits(services_cache', calls'[c].arg.user_id)
                  got == calls'[c].result.returned
              IN  IF hits = {}
                  THEN got = PyNone
                  ELSE \E i \in hits : /\ \A j \in hits : i <= j
                                       /\ got = services_cache'[i]
      ]_vars

\* t1 has been unregistered and the lookup of its sender returns its entry,
\* url null
C15_Witness ==
    /\ IsUnregister(calls[1]) /\ ReturnedNormally(calls[1])
    /\ IsByUserId(calls[2]) /\ ReturnedNormally(calls[2])
    /\ calls[2].arg.user_id = "@as1"
    /\ calls[2].result.returned # PyNone
    /\ calls[2].result.returned.url = NULL
    /\ calls[2].result.returned.sender = "@as1"

\* how many times x occurs in a list
Occurrences(list, x) == Cardinality({i \in 1..Len(list) : list[i] = x})

\* the rule rows of the service stored under id
RuleRowsOf(id) ==
    {i \in 1..Len(application_services_regex) : application_services_regex[i].as_id = id}

\* the rows among `rows` whose payload decodes to rule x
DecodingTo(rows, x) ==
    {i \in rows : /\ WellFormed(application_services_regex[i].regex)
                  /\ loads(application_services_regex[i].regex) = x}

\* the position of kind in the enumeration users=0, aliases=1, rooms=2
KindInt(kind) == CHOOSE p \in 0..2 : NS_LIST[p + 1] = kind

Kinds == {NS_USERS, NS_ALIASES, NS_ROOMS}

DecodedRules == {Rule1, Rule2}

C17_OutOfRangeSkipped ==
    populate_pc = "done" =>
        \A id \in DOMAIN application_services :
            (\A r \in RuleRowsOf(id) : application_services_regex[r].namespace \notin 0..2)
                => \A i \in 1..Len(services_cache) :
                       services_cache[i].token = application_services[id].token
                           => services_cache[i].namespaces = NoRules

\* the rules service carries for kind; a kind it does not name has none
RulesOfKind(service, kind) ==
    IF kind \in DOMAIN service.namespaces THEN service.namespaces[kind] ELSE <<>>

\* C18: when the transaction of update_app_service(service) commits for a
\* token that has a row, every population from the tables as committed gives
\* one service for that token, with service's url, hs_token and sender and,
\* kind by kind, the rules service carries (as a bag); every rule row of the
\* token is stored under the position of its kind.
C18_RoundTrip ==
    [][\A c \in Calls :
          (/\ IsUpdate(calls[c]) /\ Moves(c, "txn", "committed")
           /\ HasRow(application_services, calls[c].arg.token)) =>
              LET service == calls[c].arg
                  as_id == _get_as_id_txn(application_services', service.token).int
                  stored == application_services_regex'
              IN  /\ \A cache \in PopulatedCaches(<<>>, application_services', stored) :
                        \E i \in 1..Len(cache) :
                            /\ cache[i].token = service.token
                            /\ \A j \in 1..Len(cache) :
                                   cache[j].token = service.token => j = i
                            /\ cache[i].url = service.url
                            /\ cache[i].hs_token = service.hs_token
                            /\ cache[i].sender = service.sender
                            /\ \A kind \in Kinds :
                                  /\ Len(cache[i].namespaces[kind])
                                       = Len(RulesOfKind(service, kind))
                                  /\ \A x \in DecodedRules :
                                        Occurrences(cache[i].namespaces[kind], x)
                                          = Occurrences(RulesOfKind(service, kind), x)
                  /\ \A r \in 1..Len(stored) :
                        stored[r].as_id = as_id =>
                            /\ stored[r].namespace \in 0..2
                            /\ \E k \in 1..Len(RulesOfKind(service,
                                                  NS_LIST[stored[r].namespace + 1])) :
                                   stored[r].regex =
                                       dumps(RulesOfKind(service,
                                                 NS_LIST[stored[r].namespace + 1])[k])
      ]_vars

\* t1, registered with a users rule and a rooms rule, has been updated to a
\* service that names the users kind only, and its stored rows are the two
\* users rules of that service
C18_Witness ==
    /\ \E c \in Calls :
           /\ IsUpdate(calls[c]) /\ ReturnedNormally(calls[c])
           /\ calls[c].arg.token = "t1" /\ calls[c].arg.namespaces = Ns1
    /\ \E c \in Calls :
           /\ IsUpdate(calls[c]) /\ ReturnedNormally(calls[c])
           /\ calls[c].arg.token = "t1" /\ calls[c].arg.namespaces = NsUsersOnly
    /\ application_services[1].url = "u1c"
    /\ application_services_regex =
           <<RegexRow(1, 0, dumps(Rule2)), RegexRow(1, 0, dumps(Rule1))>>

\* C19: once an update and an unregister of one token that has a row have
\* both returned, the population having succeeded, the cached entry of the
\* token has a null url exactly when the row has.
C19_CoherentAfterConcurrentMutations ==
    \A u, v \in Calls :
        (/\ populate_pc = "done"
         /\ IsUpdate(calls[u]) /\ ReturnedNormally(calls[u])
         /\ IsUnregister(calls[v]) /\ ReturnedNormally(calls[v])
         /\ calls[u].arg.token = calls[v].arg.token
         /\ HasRow(application_services, calls[u].arg.token)) =>
            LET token == calls[u].arg.token
                id == _get_as_id_txn(application_services, token).int
            IN  /\ IsCached(services_cache, token)
                /\ (get_app_service_by_token(services_cache, token, TRUE).url = NULL)
                       <=> (application_services[id].url = NULL)

\* C20: the cache step of update_app_service(service) puts service at the
\* position of the entry with its token and leaves every other position as
\* it was, or, no entry having the token, leaves every position as it was
\* and adds service at the end; the cache step of unregister_app_service
\* keeps the length, the token at every position and every entry of another
\* token.
C20_CacheStepFrame ==
    [][\A c \in Calls :
          (IsMutation(calls[c]) /\ Moves(c, "committed", "done")) =>
              LET old == services_cache
                  new == services_cache'
                  token == calls[c].arg.token
              IN  IF IsUpdate(calls[c])
                  THEN IF IsCached(old, token)
                       THEN /\ Len(new) = Len(old)
                            /\ \E i \in 1..Len(old) :
                                   /\ old[i].token = token
                                   /\ new[i] = calls[c].arg
                                   /\ \A j \in 1..Len(old) : j # i => new[j] = old[j]
                       ELSE /\ Len(new) = Len(old) + 1
                            /\ new[Len(new)] = calls[c].arg
                            /\ \A j \in 1..Len(old) : new[j] = old[j]
                  ELSE /\ Len(new) = Len(old)
                       /\ \A j \in 1..Len(old) :
                              /\ new[j].token = old[j].token
                              /\ old[j].token # token => new[j] = old[j]
      ]_vars

\* t9 has been appended behind the two populated services and t1 has been
\* replaced where it was, t2 being untouched
C20_Witness ==
    /\ \A c \in Calls : IsUpdate(calls[c]) /\ ReturnedNormally(calls[c])
    /\ Len(services_cache) = 3
    /\ services_cache[3] = ApplicationService("t9", "u9", Ns1, "h9", "@as1")
    /\ \E i, j \in 1..2 :
           /\ services_cache[i] = ApplicationService("t1", "u1b", Ns1, "h1b", "@as1b")
           /\ services_cache[j] = ApplicationService("t2", NULL, NoRules, "h2", "@as2")

=============================================================================
